---- MODULE Spec2Model ----
(***************************************************************************)
(* Word-frequency analysis of an e-book (src/main.py): the text            *)
(* normalisation pipeline, the per-chapter analysis of a container and the *)
(* CSV export.                                                             *)
(*                                                                         *)
(* A string is a sequence of one-character strings; a word-frequency       *)
(* mapping is a function from words to counts; a file system is a function *)
(* from file names to the rows written.                                    *)
(***************************************************************************)
EXTENDS Integers, Sequences, FiniteSets, TLC

VARIABLES
    pc,                \* position of the run
    text,              \* argument of clean_text
    cleaned,           \* value returned by clean_text
    container,         \* the e-book container given to analyze_epub
    chapter_analyses,  \* list of <<chapter_title, frequencies>>
    min_frequency,     \* parameter of print_chapter_analysis / export_to_csv
    sort_by,           \* parameter: "frequency" or "alphabetical"
    export_csv,        \* parameter of print_chapter_analysis
    dirs,              \* output directories created
    files,             \* file name -> rows written
    raised             \* an exception reached the caller (analyze_epub catches
                       \* every Exception; file-system failures are not modelled)

vars == << pc, text, cleaned, container, chapter_analyses, min_frequency,
           sort_by, export_csv, dirs, files, raised >>

-----------------------------------------------------------------------------
(* Characters.  The characters the model knows, in ascending code point    *)
(* order (the order Python compares strings by).                           *)

CharsByCodePoint ==
  << "\t", "\n", " ", "!", "&", "'", ",", "-", ".", "0", "1", "2", "3",
     "4", "5", "6", "7", "8", "9", ";", "<", ">", "?", "A", "B", "C",
     "D", "E", "F", "G", "H", "I", "J", "K", "L", "M", "N", "O", "P",
     "Q", "R", "S", "T", "U", "V", "W", "X", "Y", "Z", "_", "a", "b",
     "c", "d", "e", "f", "g", "h", "i", "j", "k", "l", "m", "n", "o",
     "p", "q", "r", "s", "t", "u", "v", "w", "x", "y", "z", "À", "Á",
     "Â", "Ã", "Ä", "Ç", "È", "É", "Ê", "Ë", "Ì", "Í", "Î", "Ï", "Ñ",
     "Ò", "Ó", "Ô", "Õ", "Ö", "Ù", "Ú", "Û", "Ü", "à", "á", "â", "ã",
     "ä", "ç", "è", "é", "ê", "ë", "ì", "í", "î", "ï", "ñ", "ò", "ó",
     "ô", "õ", "ö", "ù", "ú", "û", "ü" >>

Ord ==
  [c \in {CharsByCodePoint[i] : i \in 1..Len(CharsByCodePoint)} |->
      CHOOSE i \in 1..Len(CharsByCodePoint) : CharsByCodePoint[i] = c]

\* str.lower(): every cased character of the model and its lowercase form.
UpperChars ==
  << "A", "B", "C", "D", "E", "F", "G", "H", "I", "J", "K", "L", "M",
     "N", "O", "P", "Q", "R", "S", "T", "U", "V", "W", "X", "Y", "Z",
     "Á", "É", "Í", "Ó", "Ú", "Â", "Ê", "Î", "Ô", "Û", "Ã", "Õ", "À",
     "È", "Ì", "Ò", "Ù", "Ä", "Ë", "Ï", "Ö", "Ü", "Ç", "Ñ" >>

LowerChars ==
  << "a", "b", "c", "d", "e", "f", "g", "h", "i", "j", "k", "l", "m",
     "n", "o", "p", "q", "r", "s", "t", "u", "v", "w", "x", "y", "z",
     "á", "é", "í", "ó", "ú", "â", "ê", "î", "ô", "û", "ã", "õ", "à",
     "è", "ì", "ò", "ù", "ä", "ë", "ï", "ö", "ü", "ç", "ñ" >>

LowerMap ==
  [c \in {UpperChars[i] : i \in 1..Len(UpperChars)} |->
      LowerChars[CHOOSE i \in 1..Len(UpperChars) : UpperChars[i] = c]]

LowerChar(c) == IF c \in DOMAIN LowerMap THEN LowerMap[c] ELSE c

Lower(s) == [i \in 1..Len(s) |-> LowerChar(s[i])]

\* \s of the regular expressions, str.split() and str.strip()
Whitespace == {" ", "\t", "\n"}

\* a-z and the accented letters of the character class of clean_text
AllowedLetters ==
  { "a", "b", "c", "d", "e", "f", "g", "h", "i", "j", "k", "l", "m",
    "n", "o", "p", "q", "r", "s", "t", "u", "v", "w", "x", "y", "z",
    "á", "é", "í", "ó", "ú", "â", "ê", "î", "ô", "û", "ã", "õ", "à",
    "è", "ì", "ò", "ù", "ä", "ë", "ï", "ö", "ü", "ç", "ñ" }

Digits == {"0", "1", "2", "3", "4", "5", "6", "7", "8", "9"}

\* \w of the regular expression that cleans a file name
WordChars ==
  AllowedLetters \cup {UpperChars[i] : i \in 1..Len(UpperChars)} \cup Digits \cup {"_"}

-----------------------------------------------------------------------------
(* The compound table, in the insertion order of the dictionary.           *)

PORTUGUESE_COMPOUNDS ==
  << << <<"o", " ", "q", "u", "e">>,
        <<"o", "_", "q", "u", "e">> >>,
     << <<"p", "o", "r", " ", "q", "u", "e">>,
        <<"p", "o", "r", "_", "q", "u", "e">> >>,
     << <<"p", "a", "r", "a", " ", "q", "u", "e">>,
        <<"p", "a", "r", "a", "_", "q", "u", "e">> >>,
     << <<"d", "e", " ", "a", "c", "o", "r", "d", "o", " ", "c", "o", "m">>,
        <<"d", "e", "_", "a", "c", "o", "r", "d", "o", "_", "c", "o", "m">> >>,
     << <<"a", "o", " ", "l", "a", "d", "o", " ", "d", "e">>,
        <<"a", "o", "_", "l", "a", "d", "o", "_", "d", "e">> >>,
     << <<"e", "m", " ", "f", "r", "e", "n", "t", "e">>,
        <<"e", "m", "_", "f", "r", "e", "n", "t", "e">> >>,
     << <<"e", "m", " ", "f", "r", "e", "n", "t", "e", " ", "a">>,
        <<"e", "m", "_", "f", "r", "e", "n", "t", "e", "_", "a">> >>,
     << <<"d", "e", "n", "t", "r", "o", " ", "d", "e">>,
        <<"d", "e", "n", "t", "r", "o", "_", "d", "e">> >>,
     << <<"f", "o", "r", "a", " ", "d", "e">>,
        <<"f", "o", "r", "a", "_", "d", "e">> >>,
     << <<"e", "m", " ", "c", "i", "m", "a", " ", "d", "e">>,
        <<"e", "m", "_", "c", "i", "m", "a", "_", "d", "e">> >>,
     << <<"e", "m", " ", "b", "a", "i", "x", "o", " ", "d", "e">>,
        <<"e", "m", "_", "b", "a", "i", "x", "o", "_", "d", "e">> >>,
     << <<"a", " ", "p", "a", "r", "t", "i", "r", " ", "d", "e">>,
        <<"a", "_", "p", "a", "r", "t", "i", "r", "_", "d", "e">> >>,
     << <<"a", "t", "é", " ", "l", "o", "g", "o">>,
        <<"a", "t", "é", "_", "l", "o", "g", "o">> >>,
     << <<"c", "o", "m", " ", "c", "e", "r", "t", "e", "z", "a">>,
        <<"c", "o", "m", "_", "c", "e", "r", "t", "e", "z", "a">> >>,
     << <<"m", "a", "i", "s", " ", "o", "u", " ", "m", "e", "n", "o", "s">>,
        <<"m", "a", "i", "s", "_", "o", "u", "_", "m", "e", "n", "o", "s">> >>,
     << <<"t", "o", "d", "o", " ", "m", "u", "n", "d", "o">>,
        <<"t", "o", "d", "o", "_", "m", "u", "n", "d", "o">> >>,
     << <<"t", "o", "d", "o", " ", "d", "i", "a">>,
        <<"t", "o", "d", "o", "_", "d", "i", "a">> >>,
     << <<"b", "o", "a", " ", "n", "o", "i", "t", "e">>,
        <<"b", "o", "a", "_", "n", "o", "i", "t", "e">> >>,
     << <<"b", "o", "m", " ", "d", "i", "a">>,
        <<"b", "o", "m", "_", "d", "i", "a">> >>,
     << <<"b", "o", "a", " ", "t", "a", "r", "d", "e">>,
        <<"b", "o", "a", "_", "t", "a", "r", "d", "e">> >>,
     << <<"d", "e", " ", "v", "e", "z", " ", "e", "m", " ", "q", "u", "a", "n", "d", "o">>,
        <<"d", "e", "_", "v", "e", "z", "_", "e", "m", "_", "q", "u", "a", "n", "d", "o">> >>,
     << <<"d", "e", " ", "r", "e", "p", "e", "n", "t", "e">>,
        <<"d", "e", "_", "r", "e", "p", "e", "n", "t", "e">> >>,
     << <<"à", "s", " ", "v", "e", "z", "e", "s">>,
        <<"à", "s", "_", "v", "e", "z", "e", "s">> >>,
     << <<"p", "o", "r", " ", "i", "s", "s", "o">>,
        <<"p", "o", "r", "_", "i", "s", "s", "o">> >>,
     << <<"o", "u", " ", "s", "e", "j", "a">>,
        <<"o", "u", "_", "s", "e", "j", "a">> >>,
     << <<"p", "e", "l", "o", " ", "m", "e", "n", "o", "s">>,
        <<"p", "e", "l", "o", "_", "m", "e", "n", "o", "s">> >>,
     << <<"a", "s", "s", "i", "m", " ", "q", "u", "e">>,
        <<"a", "s", "s", "i", "m", "_", "q", "u", "e">> >>,
     << <<"m", "e", "s", "m", "o", " ", "q", "u", "e">>,
        <<"m", "e", "s", "m", "o", "_", "q", "u", "e">> >>,
     << <<"a", "n", "t", "e", "s", " ", "d", "e">>,
        <<"a", "n", "t", "e", "s", "_", "d", "e">> >>,
     << <<"d", "e", "p", "o", "i", "s", " ", "d", "e">>,
        <<"d", "e", "p", "o", "i", "s", "_", "d", "e">> >>,
     << <<"t", "e", "m", " ", "q", "u", "e">>,
        <<"t", "e", "m", "_", "q", "u", "e">> >>,
     << <<"p", "o", "d", "e", " ", "s", "e", "r">>,
        <<"p", "o", "d", "e", "_", "s", "e", "r">> >>,
     << <<"q", "u", "e", "r", " ", "d", "i", "z", "e", "r">>,
        <<"q", "u", "e", "r", "_", "d", "i", "z", "e", "r">> >>,
     << <<"a", "i", "n", "d", "a", " ", "n", "ã", "o">>,
        <<"a", "i", "n", "d", "a", "_", "n", "ã", "o">> >>,
     << <<"j", "á", " ", "n", "ã", "o">>,
        <<"j", "á", "_", "n", "ã", "o">> >>,
     << <<"n", "e", "m", " ", "m", "e", "s", "m", "o">>,
        <<"n", "e", "m", "_", "m", "e", "s", "m", "o">> >> >>

Max(S) == CHOOSE x \in S : \A y \in S : y <= x

RECURSIVE SelectLen(_, _)
\* the entries of table t whose phrase has length n, in table order
SelectLen(t, n) ==
  IF t = << >> THEN << >>
  ELSE (IF Len(Head(t)[1]) = n THEN << Head(t) >> ELSE << >>) \o SelectLen(Tail(t), n)

RECURSIVE SortByLenDesc(_, _)
\* sorted(keys, key=len, reverse=True): stable, longest phrase first
SortByLenDesc(t, n) ==
  IF n = 0 THEN << >> ELSE SelectLen(t, n) \o SortByLenDesc(t, n - 1)

sorted_compounds ==
  SortByLenDesc(PORTUGUESE_COMPOUNDS,
                Max({Len(PORTUGUESE_COMPOUNDS[i][1]) : i \in 1..Len(PORTUGUESE_COMPOUNDS)}))

-----------------------------------------------------------------------------
(* Text normalisation.                                                     *)

Drop(s, n) == SubSeq(s, n + 1, Len(s))

StartsWith(s, p) == Len(p) <= Len(s) /\ SubSeq(s, 1, Len(p)) = p

RECURSIVE Replace(_, _, _)
\* str.replace(old, new): left to right, non-overlapping, old non-empty
Replace(s, old, new) ==
  IF Len(s) < Len(old) THEN s
  ELSE IF StartsWith(s, old) THEN new \o Replace(Drop(s, Len(old)), old, new)
  ELSE << Head(s) >> \o Replace(Tail(s), old, new)

RECURSIVE ReplaceAll(_, _)
\* the loop of replace_compounds over the table t
ReplaceAll(s, t) ==
  IF t = << >> THEN s
  ELSE LET r == Replace(s, Head(t)[1], Head(t)[2])
       IN  IF Len(r) = 0 THEN r ELSE ReplaceAll(r, Tail(t))

replace_compounds(s) == ReplaceAll(Lower(s), sorted_compounds)

\* html.unescape, restricted to the named references amp, lt and gt
\* (with or without the closing semicolon)
html5 ==
  << << <<"a", "m", "p", ";">>, "&" >>, << <<"a", "m", "p">>, "&" >>,
     << <<"l", "t", ";">>, "<" >>,      << <<"l", "t">>, "<" >>,
     << <<"g", "t", ";">>, ">" >>,      << <<"g", "t">>, ">" >> >>

RefStop == {"\t", "\n", " ", "<", "&", "#", ";"}

RECURSIVE RefName(_, _)
\* the longest prefix of s of at most n characters none of which ends a name
RefName(s, n) ==
  IF n = 0 \/ s = << >> \/ Head(s) \in RefStop THEN << >>
  ELSE << Head(s) >> \o RefName(Tail(s), n - 1)

RefMatch(s) ==
  LET r == RefName(s, 32)
  IN  IF Len(s) > Len(r) /\ s[Len(r) + 1] = ";" THEN r \o << ";" >> ELSE r

InHtml5(s) == \E i \in 1..Len(html5) : html5[i][1] = s

Html5Of(s) == html5[CHOOSE i \in 1..Len(html5) : html5[i][1] = s][2]

\* replace_charref of the html module, for the named reference s
ReplaceCharref(s) ==
  IF InHtml5(s) THEN << Html5Of(s) >>
  ELSE LET xs == {x \in 2..(Len(s) - 1) : InHtml5(SubSeq(s, 1, x))}
       IN  IF xs = {} THEN << "&" >> \o s
           ELSE << Html5Of(SubSeq(s, 1, Max(xs))) >> \o Drop(s, Max(xs))

RECURSIVE HtmlUnescape(_)
HtmlUnescape(s) ==
  IF s = << >> THEN s
  ELSE IF Head(s) = "&" /\ Len(RefName(Tail(s), 32)) > 0
       THEN LET m == RefMatch(Tail(s))
            IN  ReplaceCharref(m) \o HtmlUnescape(Drop(Tail(s), Len(m)))
       ELSE << Head(s) >> \o HtmlUnescape(Tail(s))

\* re.sub(r"[^a-z...\s_]", " ", text)
StripSpecial(s) ==
  [i \in 1..Len(s) |->
      IF s[i] \in AllowedLetters \cup Whitespace \cup {"_"} THEN s[i] ELSE " "]

RECURSIVE CollapseWhitespace(_)
\* re.sub(r"\s+", " ", text)
CollapseWhitespace(s) ==
  IF s = << >> THEN s
  ELSE IF Head(s) \in Whitespace
       THEN IF Len(s) > 1 /\ s[2] \in Whitespace
            THEN CollapseWhitespace(Tail(s))
            ELSE << " " >> \o CollapseWhitespace(Tail(s))
       ELSE << Head(s) >> \o CollapseWhitespace(Tail(s))

RECURSIVE LStrip(_)
LStrip(s) == IF s /= << >> /\ Head(s) \in Whitespace THEN LStrip(Tail(s)) ELSE s

RECURSIVE RStrip(_)
RStrip(s) ==
  IF s /= << >> /\ s[Len(s)] \in Whitespace THEN RStrip(SubSeq(s, 1, Len(s) - 1)) ELSE s

\* str.strip()
Strip(s) == RStrip(LStrip(s))

\* clean_text without the removal of special characters
clean_text_NoStripSpecial(s) ==
  Strip(CollapseWhitespace(replace_compounds(Lower(HtmlUnescape(s)))))

clean_text(s) ==
  Strip(CollapseWhitespace(StripSpecial(replace_compounds(Lower(HtmlUnescape(s))))))

RECURSIVE FirstWord(_)
FirstWord(s) ==
  IF s = << >> \/ Head(s) \in Whitespace THEN << >>
  ELSE << Head(s) >> \o FirstWord(Tail(s))

RECURSIVE Split(_)
\* str.split(): the maximal runs of non-whitespace characters, in order
Split(s) ==
  LET t == LStrip(s)
  IN  IF t = << >> THEN << >>
      ELSE << FirstWord(t) >> \o Split(Drop(t, Len(FirstWord(t))))

Range(s) == {s[i] : i \in 1..Len(s)}

Count(w, ws) == Cardinality({i \in 1..Len(ws) : ws[i] = w})

\* Counter(text.split()), as a dict
get_word_frequencies(s) ==
  LET ws == Split(s) IN [w \in Range(ws) |-> Count(w, ws)]

-----------------------------------------------------------------------------
(* Ordering and sorting, as sorted() does on strings and on key tuples.    *)

Min2(a, b) == IF a <= b THEN a ELSE b

\* Python's < on strings: by code point, a proper prefix first
StrLess(a, b) ==
  \E k \in 1..(Min2(Len(a), Len(b)) + 1) :
     /\ \A j \in 1..(k - 1) : a[j] = b[j]
     /\ \/ k > Len(a) /\ k <= Len(b)
        \/ k <= Len(a) /\ k <= Len(b) /\ Ord[a[k]] < Ord[b[k]]

\* the key with ties broken in descending word order
FreqKeyLess_TiesDescending(x, y) ==
  x[2] > y[2] \/ (x[2] = y[2] /\ StrLess(y[1], x[1]))

\* key=lambda x: (-x[1], x[0]) on (word, count) pairs
FreqKeyLess(x, y) == x[2] > y[2] \/ (x[2] = y[2] /\ StrLess(x[1], y[1]))

\* key=lambda x: x[0]
WordKeyLess(x, y) == StrLess(x[1], y[1])

\* sorted(): the elements of the finite set S in ascending order, before being
\* the set of pairs << x, y >> with the key of x less than the key of y (a strict
\* total order): the element at position k has exactly k - 1 elements before it
SortSet(S, before) ==
  [k \in 1..Cardinality(S) |->
      CHOOSE x \in S : Cardinality({y \in S : << y, x >> \in before}) = k - 1]

-----------------------------------------------------------------------------
(* export_to_csv                                                           *)

EmptyMap == [x \in {} |-> 0]

\* d[k] = v on a dict
Put(d, k, v) == [x \in (DOMAIN d) \cup {k} |-> IF x = k THEN v ELSE d[x]]

\* d.get(k, 0)
Get(d, k) == IF k \in DOMAIN d THEN d[k] ELSE 0

RECURSIVE SumSeq(_)
SumSeq(s) == IF s = << >> THEN 0 ELSE Head(s) + SumSeq(Tail(s))

RECURSIVE SumOver(_, _)
\* the sum of f[x] for x in the finite set S
SumOver(f, S) ==
  IF S = {} THEN 0
  ELSE LET x == CHOOSE y \in S : TRUE IN f[x] + SumOver(f, S \ {x})

\* the timestamped directory of one run
output_dir == "word_frequency_analysis_<timestamp>"

FrequenciesSuffix == <<"_", "f", "r", "e", "q", "u", "e", "n", "c", "i", "e", "s", ".", "c", "s", "v">>

CombinedName == <<"c", "o", "m", "b", "i", "n", "e", "d", "_", "a", "n", "a", "l", "y", "s", "i", "s", ".", "c", "s", "v">>

RECURSIVE Remove(_, _)
\* re.sub of every character outside the set keep by the empty string
Remove(s, keep) ==
  IF s = << >> THEN s
  ELSE (IF Head(s) \in keep THEN << Head(s) >> ELSE << >>) \o Remove(Tail(s), keep)

\* re.sub(r"[^\w\s-]", "", chapter_title).replace(" ", "_")
clean_title(title) ==
  LET t == Remove(title, WordChars \cup Whitespace \cup {"-"})
  IN  [i \in 1..Len(t) |-> IF t[i] = " " THEN "_" ELSE t[i]]

\* os.path.join(output_dir, f"{clean_title}_frequencies.csv")
filename(title) == << output_dir, clean_title(title) \o FrequenciesSuffix >>

combined_filename == << output_dir, CombinedName >>

\* {word: freq for word, freq in frequencies.items() if freq >= min_frequency}
filtered_frequencies(frequencies, m) ==
  [w \in {v \in DOMAIN frequencies : frequencies[v] >= m} |-> frequencies[w]]

Items(d) == {<< w, d[w] >> : w \in DOMAIN d}

\* the sorted (word, count) pairs of one chapter
sorted_words(frequencies, m, sb) ==
  LET items == Items(filtered_frequencies(frequencies, m))
  IN  IF sb = "frequency"
      THEN SortSet(items, {p \in items \X items : FreqKeyLess(p[1], p[2])})
      ELSE SortSet(items, {p \in items \X items : WordKeyLess(p[1], p[2])})

ChapterFile(frequencies, m, sb) ==
  [header |-> << "Word", "Frequency" >>, rows |-> sorted_words(frequencies, m, sb)]

RECURSIVE WriteChapterFiles(_, _, _, _)
\* the loop over the chapters: open(filename, "w") replaces a file of that name
WriteChapterFiles(fs, ca, m, sb) ==
  IF ca = << >> THEN fs
  ELSE WriteChapterFiles(Put(fs, filename(Head(ca)[1]), ChapterFile(Head(ca)[2], m, sb)),
                         Tail(ca), m, sb)

RECURSIVE chapter_word_counts(_, _)
\* first pass: the dict keyed by chapter title
chapter_word_counts(ca, m) ==
  IF ca = << >> THEN EmptyMap
  ELSE LET last == ca[Len(ca)]
       IN  Put(chapter_word_counts(SubSeq(ca, 1, Len(ca) - 1), m),
               last[1], filtered_frequencies(last[2], m))

\* first pass: the set of all words kept in some chapter
all_words(ca, m) ==
  UNION {DOMAIN filtered_frequencies(ca[i][2], m) : i \in 1..Len(ca)}

\* Counter() updated with every value of chapter_word_counts
total_frequencies(ca, m) ==
  LET cwc == chapter_word_counts(ca, m)
  IN  [w \in all_words(ca, m) |->
         SumOver([t \in DOMAIN cwc |-> Get(cwc[t], w)], DOMAIN cwc)]

\* key=lambda x: (-total_frequencies[x], x)
TotalKeyLess(tf, x, y) == tf[x] > tf[y] \/ (tf[x] = tf[y] /\ StrLess(x, y))

sorted_all_words(ca, m, sb) ==
  LET tf == total_frequencies(ca, m)
      ws == all_words(ca, m)
  IN  IF sb = "frequency"
      THEN SortSet(ws, {p \in ws \X ws : TotalKeyLess(tf, p[1], p[2])})
      ELSE SortSet(ws, {p \in ws \X ws : StrLess(p[1], p[2])})

\* one data row of the combined file: the word, a cell per chapter, the total
CombinedRow(word, ca, m) ==
  LET cwc   == chapter_word_counts(ca, m)
      cells == [i \in 1..Len(ca) |-> Get(cwc[ca[i][1]], word)]
  IN  << word >> \o cells \o << SumSeq(cells) >>

CombinedFile(ca, m, sb) ==
  LET ws == sorted_all_words(ca, m, sb)
  IN  [header |-> << "Word" >> \o [i \in 1..Len(ca) |-> ca[i][1]] \o << "Total" >>,
       rows   |-> [k \in 1..Len(ws) |-> CombinedRow(ws[k], ca, m)]]

\* the files after export_to_csv(ca, m, sb) on the file system fs
export_to_csv(fs, ca, m, sb) ==
  Put(WriteChapterFiles(fs, ca, m, sb), combined_filename, CombinedFile(ca, m, sb))

-----------------------------------------------------------------------------
(* Inputs of the text specification.                                       *)

MaxTextLen == 5

TextAlphabet == {"o", "q", "u", "e", " ", ","}

SeqsUpTo(S, n) == UNION {[1..k -> S] : k \in 0..n}

ScenarioTexts ==
  { <<"O", " ", "Q", "U", "E", " ", "é", "?">>,
    <<"c", "o", "m", "o", " ", "q", "u", "e">>,
    <<"a", " ", "&", "a", "m", "p", ";", " ", "b">> }

Texts == SeqsUpTo(TextAlphabet, MaxTextLen) \cup ScenarioTexts

InitText ==
  /\ pc = "text"
  /\ text \in Texts
  /\ cleaned = << >>
  /\ container = [opens |-> FALSE, items |-> << >>]
  /\ chapter_analyses = << >>
  /\ min_frequency = 1
  /\ sort_by = "frequency"
  /\ export_csv = TRUE
  /\ dirs = {}
  /\ files = EmptyMap
  /\ raised = FALSE

CleanText ==
  /\ pc = "text"
  /\ cleaned' = clean_text(text)
  /\ pc' = "cleaned"
  /\ UNCHANGED << text, container, chapter_analyses, min_frequency, sort_by,
                  export_csv, dirs, files, raised >>

NextText == CleanText

SpecText == InitText /\ [][NextText]_vars

-----------------------------------------------------------------------------
(* Inputs of the export specification.                                     *)

MaxChapters == 2

MaxCount == 2

Titles == { <<"A">>, <<"A", "!">> }

Words == { <<"i">>, <<"é">> }

FrequencyMaps ==
  UNION {[D -> 1..MaxCount] : D \in SUBSET Words}

Chapters == {<< t, f >> : t \in Titles, f \in FrequencyMaps}

Ch1 == <<"C", "h", "1">>

o_que == <<"o", "_", "q", "u", "e">>

isso == <<"i", "s", "s", "o">>

eacute == <<"é">>

ScenarioFrequencies == (o_que :> 2) @@ (eacute :> 2) @@ (isso :> 2)

ScenarioLists ==
  { << << Ch1, ScenarioFrequencies >> >>,
    << << <<"A">>, (isso :> 1) >>, << <<"A">>, (eacute :> 1) >>,
       << <<"B">>, (isso :> 1) >> >>,
    << << <<"a", " ", "b">>, (isso :> 1) >>, << <<"a", "_", "b">>, (eacute :> 2) >>,
       << <<"a", "/", "b">>, (isso :> 2) >> >> }

ChapterLists == SeqsUpTo(Chapters, MaxChapters) \cup ScenarioLists

InitExport ==
  /\ pc = "export"
  /\ chapter_analyses \in ChapterLists
  /\ min_frequency \in 1..MaxCount
  /\ sort_by \in {"frequency", "alphabetical"}
  /\ export_csv = TRUE
  /\ text = << >>
  /\ cleaned = << >>
  /\ container = [opens |-> FALSE, items |-> << >>]
  /\ dirs = {}
  /\ files = EmptyMap
  /\ raised = FALSE

ExportToCsv ==
  /\ pc = "export"
  /\ dirs' = dirs \cup {output_dir}
  /\ files' = export_to_csv(files, chapter_analyses, min_frequency, sort_by)
  /\ pc' = "exported"
  /\ UNCHANGED << text, cleaned, container, chapter_analyses, min_frequency,
                  sort_by, export_csv, raised >>

NextExport == ExportToCsv

SpecExport == InitExport /\ [][NextExport]_vars

-----------------------------------------------------------------------------
(* analyze_epub.  A document part is its file name, whether its bytes are  *)
(* valid UTF-8, and the parsed markup: the elements that carry text, in    *)
(* document order, each with its tag and its text.                         *)

\* soup.find(tags): the position of the first element with one of the tags, 0 if none
Find(doc, tags) ==
  IF \E i \in 1..Len(doc) : doc[i].tag \in tags
  THEN CHOOSE i \in 1..Len(doc) :
          doc[i].tag \in tags /\ \A j \in 1..(i - 1) : doc[j].tag \notin tags
  ELSE 0

\* a Tag object is true whatever its contents: "if title" tests that find() found one
chapter_title(item) ==
  LET title   == Find(item.doc, {"title"})
      heading == Find(item.doc, {"h1", "h2"})
  IN  IF title /= 0 THEN item.doc[title].text
      ELSE IF heading /= 0 THEN item.doc[heading].text
      ELSE item.name

RECURSIVE GetText(_)
\* soup.get_text(): the text of every element left in the tree, concatenated
GetText(doc) ==
  IF doc = << >> THEN << >> ELSE Head(doc).text \o GetText(Tail(doc))

\* script and style elements are decomposed, then get_text()
html_to_text(doc) ==
  GetText(SelectSeq(doc, LAMBDA e : e.tag \notin {"script", "style"}))

\* the body of the loop for one document part
ChapterRecord(item) ==
  << chapter_title(item), get_word_frequencies(clean_text(html_to_text(item.doc))) >>

RECURSIVE AnalyzeItems(_, _)
\* the loop over the document parts; decode("utf-8") raises on invalid bytes
AnalyzeItems(items, acc) ==
  IF items = << >> THEN [raises |-> FALSE, value |-> acc]
  ELSE IF ~Head(items).valid_utf8 THEN [raises |-> TRUE, value |-> acc]
  ELSE AnalyzeItems(Tail(items), Append(acc, ChapterRecord(Head(items))))

\* try: ... except Exception: return []
analyze_epub(c) ==
  IF ~c.opens THEN << >>
  ELSE LET r == AnalyzeItems(c.items, << >>)
       IN  IF r.raises THEN << >> ELSE r.value

-----------------------------------------------------------------------------
(* Inputs of the run of the script.                                        *)

MaxItems == 2

ScenarioBody == <<"o", " ", "q", "u", "e", " ", "é", " ", "i", "s", "s", "o", "?", " ", "O", " ", "Q", "U", "E", " ", "é", " ", "i", "s", "s", "o", "!">>

TitleChoices == { "absent", "empty", "text" }

HeadingChoices == { "absent", "h1" }

Bodies == { ScenarioBody, <<"b", "o", "m", " ", "d", "i", "a">> }

DocOf(t, h, b) ==
  (IF t = "absent" THEN << >>
   ELSE << [tag |-> "title", text |-> IF t = "empty" THEN << >> ELSE Ch1] >>)
  \o (IF h = "absent" THEN << >> ELSE << [tag |-> "h1", text |-> <<"U", "m">>] >>)
  \o << [tag |-> "p", text |-> b] >>

ScriptDoc ==
  << [tag |-> "style", text |-> <<"p", " ", "{", "}">>],
     [tag |-> "h2", text |-> <<"D", "o", "i", "s">>],
     [tag |-> "script", text |-> <<"v", "a", "r", " ", "o", " ", "q", "u", "e">>],
     [tag |-> "p", text |-> <<"a", "t", "é", " ", "l", "o", "g", "o">>] >>

\* the content of a part: whether it decodes, and its markup
Contents ==
  {[valid_utf8 |-> TRUE, doc |-> DocOf(t, h, b)] :
      t \in TitleChoices, h \in HeadingChoices, b \in Bodies}
  \cup {[valid_utf8 |-> TRUE, doc |-> ScriptDoc], [valid_utf8 |-> FALSE, doc |-> << >>]}

\* item.get_name(): the file name of the part at position i of the container
PartName(i) == <<"p", "a", "r", "t">> \o << CharsByCodePoint[Ord["0"] + i] >> \o <<".", "x">>

ItemsOf(cs) ==
  [i \in 1..Len(cs) |->
      [name |-> PartName(i), valid_utf8 |-> cs[i].valid_utf8, doc |-> cs[i].doc]]

Containers ==
  {[opens |-> FALSE, items |-> << >>]}
  \cup {[opens |-> TRUE, items |-> ItemsOf(cs)] : cs \in SeqsUpTo(Contents, MaxItems)}

\* the script: analyze_epub(epub_path), then print_chapter_analysis with
\* min_frequency=1, sort_by="frequency", export_csv=True
Init ==
  /\ pc = "start"
  /\ container \in Containers
  /\ chapter_analyses = << >>
  /\ min_frequency = 1
  /\ sort_by = "frequency"
  /\ export_csv = TRUE
  /\ text = << >>
  /\ cleaned = << >>
  /\ dirs = {}
  /\ files = EmptyMap
  /\ raised = FALSE

AnalyzeEpub ==
  /\ pc = "start"
  /\ chapter_analyses' = analyze_epub(container)
  /\ pc' = "analyzed"
  /\ UNCHANGED << text, cleaned, container, min_frequency, sort_by, export_csv,
                  dirs, files, raised >>

\* the console output is not part of the state; the export is
PrintChapterAnalysis ==
  /\ pc = "analyzed"
  /\ IF export_csv
     THEN /\ dirs' = dirs \cup {output_dir}
          /\ files' = export_to_csv(files, chapter_analyses, min_frequency, sort_by)
     ELSE UNCHANGED << dirs, files >>
  /\ pc' = "done"
  /\ UNCHANGED << text, cleaned, container, chapter_analyses, min_frequency,
                  sort_by, export_csv, raised >>

Next == AnalyzeEpub \/ PrintChapterAnalysis

Spec == Init /\ [][Next]_vars

-----------------------------------------------------------------------------
(* Properties of the run of the script (Spec).                             *)

ScenarioContainer ==
  [opens |-> TRUE,
   items |-> ItemsOf(<< [valid_utf8 |-> TRUE,
                         doc |-> DocOf("text", "absent", ScenarioBody)] >>)]

ScenarioCleaned == <<"o", "_", "q", "u", "e", " ", "é", " ", "i", "s", "s", "o", " ", "o", "_", "q", "u", "e", " ", "é", " ", "i", "s", "s", "o">>

\* C1: for the container with the one part <title>Ch1</title><body><p>o que é
\* isso? O QUE é isso!</p></body>, analyze_epub returns one record, titled Ch1,
\* whose normalized text is "o_que é isso o_que é isso" and whose frequencies
\* are exactly {o_que: 2, é: 2, isso: 2}.
C1_EndToEnd ==
  (pc /= "start" /\ container = ScenarioContainer) =>
     /\ Len(chapter_analyses) = 1
     /\ chapter_analyses[1][1] = Ch1
     /\ clean_text(html_to_text(container.items[1].doc)) = ScenarioCleaned
     /\ chapter_analyses[1][2] = ScenarioFrequencies

\* C5: when the container fails to open, the run of the script ends with an
\* empty chapter list, no file written and no exception raised to the caller.
C5_OpenFailureWritesNothing ==
  (pc = "done" /\ ~container.opens) =>
     /\ chapter_analyses = << >>
     /\ DOMAIN files = {}
     /\ ~raised

\* C6: a part that fails to decode is the only part skipped: the list returned
\* holds the record of every other part of the container, in container order.
C6_DecodeFailureSkipsOnePart ==
  (pc /= "start" /\ container.opens) =>
     LET decodable == SelectSeq(container.items, LAMBDA it : it.valid_utf8)
     IN  chapter_analyses = [i \in 1..Len(decodable) |-> ChapterRecord(decodable[i])]

\* the title the priority rule asks for: a title element with non-empty text,
\* else the first heading, else the file name of the part
PriorityTitle(item) ==
  LET title   == Find(item.doc, {"title"})
      heading == Find(item.doc, {"h1", "h2"})
  IN  IF title /= 0 /\ item.doc[title].text /= << >> THEN item.doc[title].text
      ELSE IF heading /= 0 THEN item.doc[heading].text
      ELSE item.name

\* C10: the title of every part is the text of its title element if present and
\* non-empty, else the text of its first heading, else its file name.
C10_TitlePriority ==
  (pc /= "start" /\ container.opens
     /\ \A i \in 1..Len(container.items) : container.items[i].valid_utf8) =>
     /\ Len(chapter_analyses) = Len(container.items)
     /\ \A i \in 1..Len(container.items) :
           chapter_analyses[i][1] = PriorityTitle(container.items[i])

-----------------------------------------------------------------------------
(* Properties of clean_text (SpecText).                                    *)

TableEntries == Range(PORTUGUESE_COMPOUNDS)

\* the positions at which p occurs in s
Occurrences(s, p) ==
  {i \in 1..(Len(s) - Len(p) + 1) : SubSeq(s, i, i + Len(p) - 1) = p}

\* s contains exactly one occurrence of p, which no occurrence of a longer
\* phrase of the table overlaps
OneFreeOccurrence(s, p) ==
  /\ Cardinality(Occurrences(s, p)) = 1
  /\ \A e \in TableEntries :
        Len(e[1]) > Len(p) =>
           \A i \in Occurrences(s, p), j \in Occurrences(s, e[1]) :
              j + Len(e[1]) - 1 < i \/ i + Len(p) - 1 < j

\* s with the occurrence of p at position i replaced by a comma
WithoutOccurrence(s, i, p) ==
  SubSeq(s, 1, i - 1) \o << "," >> \o Drop(s, i + Len(p) - 1)

\* C2: for every table entry (p, q) and every text with exactly one occurrence
\* of p that no longer phrase overlaps, q is a whole token of the cleaned text,
\* and the words of that occurrence are not tokens of it: each word of p is a
\* token no more often than in the text without the occurrence.
C2_CompoundBecomesToken ==
  pc = "cleaned" =>
     \A e \in TableEntries :
        OneFreeOccurrence(text, e[1]) =>
           LET i      == CHOOSE k \in Occurrences(text, e[1]) : TRUE
               tokens == Split(cleaned)
               rest   == Split(clean_text(WithoutOccurrence(text, i, e[1])))
           IN  /\ e[2] \in Range(tokens)
               /\ \A w \in Range(Split(e[1])) : Count(w, tokens) <= Count(w, rest)

\* steps 2 to 5 of the normalization
Steps2to5(s) ==
  Strip(CollapseWhitespace(StripSpecial(replace_compounds(Lower(s)))))

\* steps 2, 4 and 5: no compound folding
Steps245(s) == Strip(CollapseWhitespace(StripSpecial(Lower(s))))

ContainsPhrase(s) == \E e \in TableEntries : Occurrences(s, e[1]) /= {}

\* C7 as stated: re-running steps 2 to 5 on clean_text(x) yields it again.
C7_Steps2to5Idempotent ==
  pc = "cleaned" => Steps2to5(cleaned) = cleaned

\* C7 as amended: re-running steps 2, 4 and 5 on clean_text(x) yields it again,
\* and re-running steps 2 to 5 yields it again exactly when clean_text(x)
\* contains no phrase of the table.
C7_IdempotentUpToFolding ==
  pc = "cleaned" =>
     /\ Steps245(cleaned) = cleaned
     /\ (Steps2to5(cleaned) = cleaned) <=> ~ContainsPhrase(cleaned)

\* a text whose cleaned form holds a phrase that was not folded: its words were
\* separated by a stripped character
C7_Witness ==
  /\ pc = "cleaned"
  /\ text = <<"o", ",", "q", "u", "e">>
  /\ cleaned = <<"o", " ", "q", "u", "e">>
  /\ ContainsPhrase(cleaned)
  /\ Steps245(cleaned) = cleaned
  /\ Steps2to5(cleaned) = o_que

-----------------------------------------------------------------------------
(* Properties of export_to_csv (SpecExport).                               *)

\* the count of word w in a chapter after the min_frequency filter, 0 if dropped
FilteredCount(frequencies, w, m) ==
  IF w \in DOMAIN frequencies /\ frequencies[w] >= m THEN frequencies[w] ELSE 0

\* the sum over all chapters of the filtered counts of w
SummedCount(ca, w, m) ==
  SumSeq([i \in 1..Len(ca) |-> FilteredCount(ca[i][2], w, m)])

CombinedRows == files[combined_filename].rows

\* C3: in every row of the combined file the cell of chapter i is that
\* chapter's own filtered count of the word, and the Total cell is their sum.
C3_CombinedCells ==
  pc = "exported" =>
     \A k \in 1..Len(CombinedRows) :
        LET row == CombinedRows[k] IN
           /\ \A i \in 1..Len(chapter_analyses) :
                 row[1 + i] = FilteredCount(chapter_analyses[i][2], row[1], min_frequency)
           /\ row[Len(chapter_analyses) + 2]
                 = SummedCount(chapter_analyses, row[1], min_frequency)

\* C4: under the frequency policy the rows of the combined file are in
\* descending order of the summed count over all chapters, which is the value
\* of the Total column, rows of equal Total in ascending word order.
C4_CombinedOrder ==
  (pc = "exported" /\ sort_by = "frequency") =>
     \A k \in 1..(Len(CombinedRows) - 1) :
        LET n  == Len(chapter_analyses)
            r1 == CombinedRows[k]
            r2 == CombinedRows[k + 1]
            s1 == SummedCount(chapter_analyses, r1[1], min_frequency)
            s2 == SummedCount(chapter_analyses, r2[1], min_frequency)
        IN  /\ r1[n + 2] > r2[n + 2]
                  \/ (r1[n + 2] = r2[n + 2] /\ StrLess(r1[1], r2[1]))
            /\ s1 > s2 \/ (s1 = s2 /\ StrLess(r1[1], r2[1]))

ChapterFileNames == (DOMAIN files) \ {combined_filename}

\* C8: after the export every chapter record has its per-chapter file, whose
\* rows are exactly the (word, count) pairs of that chapter with count >=
\* min_frequency, and there are as many per-chapter files as chapter records.
C8_OneFilePerChapter ==
  pc = "exported" =>
     /\ \A i \in 1..Len(chapter_analyses) :
           /\ filename(chapter_analyses[i][1]) \in DOMAIN files
           /\ Range(files[filename(chapter_analyses[i][1])].rows)
                 = Items(filtered_frequencies(chapter_analyses[i][2], min_frequency))
     /\ Cardinality(ChapterFileNames) = Len(chapter_analyses)

ScenarioList == << << Ch1, ScenarioFrequencies >> >>

\* the rows of every per-chapter file are in descending count order, equal
\* counts in ascending word order
ChapterRowsOrdered ==
  \A fn \in ChapterFileNames :
     \A k \in 1..(Len(files[fn].rows) - 1) :
        LET r1 == files[fn].rows[k]
            r2 == files[fn].rows[k + 1]
        IN  r1[2] > r2[2] \/ (r1[2] = r2[2] /\ StrLess(r1[1], r2[1]))

\* C9 as stated: under the frequency policy the rows of every per-chapter table
\* are in descending count order, equal counts in ascending word order, and for
\* {o_que: 2, é: 2, isso: 2} with min_frequency 1 the rows are é, isso, o_que.
C9_TieBreakAsStated ==
  (pc = "exported" /\ sort_by = "frequency") =>
     /\ ChapterRowsOrdered
     /\ (chapter_analyses = ScenarioList /\ min_frequency = 1) =>
           files[filename(Ch1)].rows
              = << << eacute, 2 >>, << isso, 2 >>, << o_que, 2 >> >>

\* C9 as amended: the same order, words compared by code point, so that for
\* {o_que: 2, é: 2, isso: 2} with min_frequency 1 the rows are isso, o_que, é.
C9_TieBreakByCodePoint ==
  (pc = "exported" /\ sort_by = "frequency") =>
     /\ ChapterRowsOrdered
     /\ (chapter_analyses = ScenarioList /\ min_frequency = 1) =>
           files[filename(Ch1)].rows
              = << << isso, 2 >>, << o_que, 2 >>, << eacute, 2 >> >>

\* the scenario chapter exported under the frequency policy with min_frequency 1
C9_Witness ==
  /\ pc = "exported"
  /\ sort_by = "frequency"
  /\ min_frequency = 1
  /\ chapter_analyses = ScenarioList
  /\ Len(files[filename(Ch1)].rows) = 3

====
